---- MODULE Spec2Model ----
(***************************************************************************)
(* Model of pdf_to_sqlite.py: the pipeline process_pdf (extract text,      *)
(* ask the model, normalise the completion, insert one row) and the pure   *)
(* text functions it is built from (str.strip, the fence slices,           *)
(* clean_json_string, json.loads).                                         *)
(*                                                                         *)
(* A Python str is a sequence of one-character strings.  A Python value is *)
(* a record [t |-> tag, v |-> payload]; the payload is always a sequence.  *)
(***************************************************************************)
EXTENDS Integers, Sequences, FiniteSets, TLC

\* ------------------------------------------------------------------ bounds
MaxRuns == 2        \* pipeline invocations in one behaviour
MaxStrLen == 2      \* length of the probe string of a round-trip document
MaxTags == 2        \* tags in a generated document
MaxDepth == 2       \* nesting depth of the generated "extra" containers

\* ------------------------------------------------------------- characters
QUOTE == "\""
BSLASH == "\\"
SP == " "
NL == "\n"
BT == "BT"          \* the backtick character of a ``` fence

\* str.strip(), the regex class \s and json's whitespace, on the characters used
Whitespace == {SP, NL}
Digits == {"0", "5"}

Min(a, b) == IF a < b THEN a ELSE b

\* s[i:]  (0-based i, as in Python)
DropFirst(s, i) == IF i >= Len(s) THEN <<>> ELSE SubSeq(s, i + 1, Len(s))
\* s[:-n]
DropLast(s, n) == IF n >= Len(s) THEN <<>> ELSE SubSeq(s, 1, Len(s) - n)
\* s[:n]
Take(s, n) == SubSeq(s, 1, Min(n, Len(s)))

StartsWith(s, p) == Len(s) >= Len(p) /\ SubSeq(s, 1, Len(p)) = p
EndsWith(s, p) == Len(s) >= Len(p) /\ SubSeq(s, Len(s) - Len(p) + 1, Len(s)) = p

RECURSIVE LStrip(_)
LStrip(s) == IF s # <<>> /\ Head(s) \in Whitespace THEN LStrip(Tail(s)) ELSE s

RECURSIVE RStrip(_)
RStrip(s) ==
    IF s # <<>> /\ s[Len(s)] \in Whitespace THEN RStrip(DropLast(s, 1)) ELSE s

\* str.strip()
Strip(s) == RStrip(LStrip(s))

\* ------------------------------------------------------ fence stripping
FenceOpen == <<BT, BT, BT, "j", "s", "o", "n">>
FenceClose == <<BT, BT, BT>>
FenceOpenLen == 7
FenceCloseLen == 3

StripFenceOpenBad(s) == IF StartsWith(s, FenceOpen) THEN Strip(DropFirst(s, 6)) ELSE s
\* if json_content.startswith("```json"): json_content = json_content[7:].strip()
StripFenceOpen(s) ==
    IF StartsWith(s, FenceOpen) THEN Strip(DropFirst(s, FenceOpenLen)) ELSE s

\* if json_content.endswith("```"): json_content = json_content[:-3].strip()
StripFenceClose(s) ==
    IF EndsWith(s, FenceClose) THEN Strip(DropLast(s, FenceCloseLen)) ELSE s

\* ---------------------------------------------------- clean_json_string
\* s[i-1] of Python, or "EOF" outside the text
At(s, i) == IF i >= 1 /\ i <= Len(s) THEN s[i] ELSE "EOF"

\* index just past the run of whitespace that starts at i
RECURSIVE SkipWs(_, _)
SkipWs(s, i) == IF i <= Len(s) /\ s[i] \in Whitespace THEN SkipWs(s, i + 1) ELSE i

\* The matches of the regex ,\s*X in s, by the index of their comma.  A match
\* holds one comma, whitespace and X, so no two candidate matches overlap and the
\* leftmost non-overlapping matches re.sub replaces are all of them.
MatchStarts(s, close) ==
    {i \in 1..Len(s) : s[i] = "," /\ At(s, SkipWs(s, i + 1)) = close}

\* only the first match, as re.sub(..., count=1) would take
FirstMatchOnly(s, close) ==
    {i \in MatchStarts(s, close) : \A j \in MatchStarts(s, close) : i <= j}

\* the indices a replacement by X deletes: each match's comma and whitespace
Dropped(s, starts) ==
    {k \in 1..Len(s) : \E i \in starts : i <= k /\ k < SkipWs(s, i + 1)}

\* s[lo..hi] without the dropped indices
RECURSIVE Without(_, _, _, _)
Without(s, dropped, lo, hi) ==
    IF lo > hi THEN <<>>
    ELSE IF lo = hi THEN (IF lo \in dropped THEN <<>> ELSE <<s[lo]>>)
    ELSE LET mid == (lo + hi) \div 2
         IN Without(s, dropped, lo, mid) \o Without(s, dropped, mid + 1, hi)

\* re.sub(r',\s*X', 'X', s)
ReSub(s, close) == Without(s, Dropped(s, MatchStarts(s, close)), 1, Len(s))

ReSubFirst(s, close) == Without(s, Dropped(s, FirstMatchOnly(s, close)), 1, Len(s))

clean_json_string_first(json_string) == ReSubFirst(ReSubFirst(json_string, "]"), "}")
clean_json_string(json_string) == ReSub(ReSub(json_string, "]"), "}")

\* ------------------------------------------------------- Python values
PyNone == [t |-> "none", v |-> <<>>]
PyStr(s) == [t |-> "str", v |-> s]
PyNum(digits) == [t |-> "num", v |-> digits]
PyBool(b) == [t |-> "bool", v |-> <<b>>]
PyList(items) == [t |-> "list", v |-> items]
\* a dict is its items in insertion order, one <<key, value>> pair per key
PyDict(pairs) == [t |-> "dict", v |-> pairs]

DictHas(d, k) == \E i \in 1..Len(d.v) : d.v[i][1] = k
DictIndex(d, k) == CHOOSE i \in 1..Len(d.v) : d.v[i][1] = k
\* d[k] = val
DictSet(pairs, k, val) ==
    IF \E i \in 1..Len(pairs) : pairs[i][1] = k
    THEN [i \in 1..Len(pairs) |-> IF pairs[i][1] = k THEN <<k, val>> ELSE pairs[i]]
    ELSE Append(pairs, <<k, val>>)

\* bool(x) is False
Falsy(x) ==
    \/ x.t = "none"
    \/ x.t \in {"str", "list", "dict"} /\ x.v = <<>>
    \/ x.t = "num" /\ \A i \in 1..Len(x.v) : x.v[i] = "0"
    \/ x.t = "bool" /\ x.v = <<FALSE>>

\* ----------------------------------------------------------- json.loads
Fail == [ok |-> FALSE, val |-> PyNone, pos |-> 0]
Ok(val, pos) == [ok |-> TRUE, val |-> val, pos |-> pos]

\* py_scanstring (strict): s[i] is the first character after the opening quote;
\* acc is the content decoded so far
\* (of the escapes, those of the characters used here: \" \\ \/ \n)
RECURSIVE ScanString(_, _, _)
ScanString(s, i, acc) ==
    IF i > Len(s) THEN Fail
    ELSE IF s[i] = QUOTE THEN Ok(PyStr(acc), i + 1)
    ELSE IF s[i] = NL THEN Fail
    ELSE IF s[i] = BSLASH
         THEN IF At(s, i + 1) \in {QUOTE, BSLASH, "/"}
              THEN ScanString(s, i + 2, Append(acc, s[i + 1]))
              ELSE IF At(s, i + 1) = "n" THEN ScanString(s, i + 2, Append(acc, NL))
              ELSE Fail
    ELSE ScanString(s, i + 1, Append(acc, s[i]))

\* NUMBER_RE, integer part: 0 | [1-9][0-9]*
RECURSIVE ScanDigits(_, _)
ScanDigits(s, i) == IF At(s, i) \in Digits THEN ScanDigits(s, i + 1) ELSE i

ScanNumber(s, i) ==
    IF At(s, i) = "0" THEN Ok(PyNum(<<"0">>), i + 1)
    ELSE IF At(s, i) \in Digits
         THEN LET j == ScanDigits(s, i) IN Ok(PyNum(SubSeq(s, i, j - 1)), j)
         ELSE Fail

Lit_null == <<"n", "u", "l", "l">>
Lit_true == <<"t", "r", "u", "e">>
Lit_false == <<"f", "a", "l", "s", "e">>

LitAt(s, i, lit) == i + Len(lit) - 1 <= Len(s) /\ SubSeq(s, i, i + Len(lit) - 1) = lit

RECURSIVE ScanOnce(_, _)
RECURSIVE ParseArrayItems(_, _, _)
RECURSIVE ParseObjectPairs(_, _, _)

\* JSONArray: s[i] is the first character after "["
ParseArray(s, i) ==
    LET j == SkipWs(s, i)
    IN IF At(s, j) = "]" THEN Ok(PyList(<<>>), j + 1) ELSE ParseArrayItems(s, j, <<>>)

\* the loop of JSONArray: a value, then "]" or "," and the next value
ParseArrayItems(s, i, acc) ==
    LET r == ScanOnce(s, i)
    IN IF ~r.ok THEN Fail
       ELSE LET j == SkipWs(s, r.pos)
                items == Append(acc, r.val)
            IN IF At(s, j) = "]" THEN Ok(PyList(items), j + 1)
               ELSE IF At(s, j) = "," THEN ParseArrayItems(s, SkipWs(s, j + 1), items)
               ELSE Fail

\* JSONObject: s[i] is the first character after "{"
ParseObject(s, i) ==
    LET j == SkipWs(s, i)
    IN IF At(s, j) = "}" THEN Ok(PyDict(<<>>), j + 1)
       ELSE IF At(s, j) = QUOTE THEN ParseObjectPairs(s, j + 1, <<>>)
       ELSE Fail

\* the loop of JSONObject: s[i] is the first character after the key's quote
ParseObjectPairs(s, i, acc) ==
    LET k == ScanString(s, i, <<>>)
    IN IF ~k.ok THEN Fail
       ELSE LET c == SkipWs(s, k.pos)
            IN IF At(s, c) # ":" THEN Fail
               ELSE LET r == ScanOnce(s, SkipWs(s, c + 1))
                    IN IF ~r.ok THEN Fail
                       ELSE LET j == SkipWs(s, r.pos)
                                pairs == DictSet(acc, k.val.v, r.val)
                            IN IF At(s, j) = "}" THEN Ok(PyDict(pairs), j + 1)
                               ELSE IF At(s, j) # "," THEN Fail
                               ELSE LET q == SkipWs(s, j + 1)
                                    IN IF At(s, q) = QUOTE
                                       THEN ParseObjectPairs(s, q + 1, pairs)
                                       ELSE Fail

\* scanner.py _scan_once
ScanOnce(s, i) ==
    IF At(s, i) = QUOTE THEN ScanString(s, i + 1, <<>>)
    ELSE IF At(s, i) = "{" THEN ParseObject(s, i + 1)
    ELSE IF At(s, i) = "[" THEN ParseArray(s, i + 1)
    ELSE IF LitAt(s, i, Lit_null) THEN Ok(PyNone, i + Len(Lit_null))
    ELSE IF LitAt(s, i, Lit_true) THEN Ok(PyBool(TRUE), i + Len(Lit_true))
    ELSE IF LitAt(s, i, Lit_false) THEN Ok(PyBool(FALSE), i + Len(Lit_false))
    ELSE ScanNumber(s, i)

\* JSONDecoder.decode: one value, then only whitespace ("Extra data" otherwise)
json_loads(s) ==
    LET r == ScanOnce(s, SkipWs(s, 1))
    IN IF r.ok /\ SkipWs(s, r.pos) = Len(s) + 1 THEN r ELSE Fail

\* ------------------------------------------------ the seven fields
K_title == <<"t", "i", "t", "l", "e">>
K_source == <<"s", "o", "u", "r", "c", "e">>
K_category == <<"c", "a", "t", "e", "g", "o", "r", "y">>
K_subtopic == <<"s", "u", "b", "t", "o", "p", "i", "c">>
K_author == <<"a", "u", "t", "h", "o", "r">>
K_tags == <<"t", "a", "g", "s">>
K_summary == <<"s", "u", "m", "m", "a", "r", "y">>

StringFields == <<K_title, K_source, K_category, K_subtopic, K_author, K_summary>>
SevenFields == <<K_title, K_source, K_category, K_subtopic, K_author, K_tags, K_summary>>

Unknown == <<"U", "n", "k", "n", "o", "w", "n">>
NoSummary ==
    <<"N", "o", SP, "s", "u", "m", "m", "a", "r", "y", SP,
      "a", "v", "a", "i", "l", "a", "b", "l", "e">>

\* the dict of the except branch of analyze_pdf_content
Fallback ==
    PyDict(<< <<K_title, PyStr(Unknown)>>, <<K_source, PyStr(Unknown)>>,
              <<K_category, PyStr(Unknown)>>, <<K_subtopic, PyStr(Unknown)>>,
              <<K_author, PyStr(Unknown)>>, <<K_tags, PyList(<<>>)>>,
              <<K_summary, PyStr(NoSummary)>> >>)

\* lines 63-73 on a completion that is a str: the value json.loads returns, or
\* the fallback of the except branch when it raises
NormalizeResult(content) ==
    LET r == json_loads(clean_json_string(
                 StripFenceClose(StripFenceOpen(Strip(content)))))
    IN IF r.ok THEN [raised |-> FALSE, val |-> r.val]
       ELSE [raised |-> TRUE, val |-> Fallback]

\* ------------------------------------------- completions the model can return
\* A written JSON text is described by a tree of nodes; a container node also
\* says how its closing bracket is written: plainly, after a trailing comma, or
\* after a trailing comma and a space.
TcStyles == {"none", "comma", "comma_sp"}
TcText(tc) ==
    IF tc = "comma" THEN <<",">> ELSE IF tc = "comma_sp" THEN <<",", SP>> ELSE <<>>

StrNode(s) == [k |-> "str", s |-> s, keys |-> <<>>, items |-> <<>>, tc |-> "none"]
LitNode(s) == [k |-> "lit", s |-> s, keys |-> <<>>, items |-> <<>>, tc |-> "none"]
ArrNode(items, tc) == [k |-> "arr", s |-> <<>>, keys |-> <<>>, items |-> items, tc |-> tc]
ObjNode(keys, items, tc) ==
    [k |-> "obj", s |-> <<>>, keys |-> keys, items |-> items, tc |-> tc]

\* the JSON escapes of the characters a string can hold here
RECURSIVE Escape(_)
Escape(s) ==
    IF s = <<>> THEN <<>>
    ELSE (IF Head(s) \in {QUOTE, BSLASH} THEN <<BSLASH, Head(s)>>
          ELSE IF Head(s) = NL THEN <<BSLASH, "n">>
          ELSE <<Head(s)>>) \o Escape(Tail(s))

Quoted(s) == <<QUOTE>> \o Escape(s) \o <<QUOTE>>

\* the text of a node; withTc = FALSE writes the same text without the
\* trailing commas
RECURSIVE Write(_, _)
RECURSIVE WriteItems(_, _, _)
WriteItems(n, i, withTc) ==
    IF i > Len(n.items) THEN <<>>
    ELSE (IF i > 1 THEN <<",", SP>> ELSE <<>>)
         \o (IF n.k = "obj" THEN Quoted(n.keys[i]) \o <<":", SP>> ELSE <<>>)
         \o Write(n.items[i], withTc)
         \o WriteItems(n, i + 1, withTc)

Write(n, withTc) ==
    IF n.k = "str" THEN Quoted(n.s)
    ELSE IF n.k = "lit" THEN n.s
    ELSE (IF n.k = "arr" THEN <<"[">> ELSE <<"{">>)
         \o WriteItems(n, 1, withTc)
         \o (IF withTc THEN TcText(n.tc) ELSE <<>>)
         \o (IF n.k = "arr" THEN <<"]">> ELSE <<"}">>)

\* the Python value a node denotes
RECURSIVE ValueOf(_)
RECURSIVE PairsOf(_, _, _)
PairsOf(n, i, acc) ==
    IF i > Len(n.items) THEN acc
    ELSE PairsOf(n, i + 1, DictSet(acc, n.keys[i], ValueOf(n.items[i])))

ValueOf(n) ==
    IF n.k = "str" THEN PyStr(n.s)
    ELSE IF n.k = "lit"
         THEN (IF n.s = Lit_null THEN PyNone
               ELSE IF n.s = Lit_true THEN PyBool(TRUE)
               ELSE IF n.s = Lit_false THEN PyBool(FALSE)
               ELSE PyNum(n.s))
    ELSE IF n.k = "arr" THEN PyList([i \in 1..Len(n.items) |-> ValueOf(n.items[i])])
    ELSE PyDict(PairsOf(n, 1, <<>>))

\* "```json\n...\n```", the form the prompt asks for
Fenced(s) == FenceOpen \o <<NL>> \o s \o <<NL>> \o FenceClose

\* a substring ',' whitespace* (']' or '}'), the shape both regexes look for
HasPattern(s) ==
    \E i \in 1..Len(s) : s[i] = "," /\ At(s, SkipWs(s, i + 1)) \in {"]", "}"}

\* ---------------------------------------------------------- the file system
P_doc == <<"d", "/", "a">>      \* a PDF with a text page and an image-only page
P_scan == <<"s">>               \* a PDF whose only page is an image
P_bad == <<"b">>                \* a file PdfReader cannot read
P_dir == <<"d">>                \* a directory
P_missing == <<"m">>            \* no such file

Paths == {P_doc, P_scan, P_bad, P_dir, P_missing}

FileKind(path) ==
    IF path = P_doc \/ path = P_scan THEN "pdf"
    ELSE IF path = P_bad THEN "corrupt"
    ELSE IF path = P_dir THEN "dir"
    ELSE "missing"

\* page.extract_text() of each page of the file
Pages(path) ==
    IF path = P_doc THEN <<PyStr(<<"h", "i">>), PyNone>> ELSE <<PyNone>>

\* os.path.exists
Exists(path) == FileKind(path) # "missing"

\* text += page.extract_text() or ""
RECURSIVE ConcatPages(_, _)
ConcatPages(pages, i) ==
    IF i > Len(pages) THEN <<>>
    ELSE (IF Falsy(pages[i]) THEN <<>> ELSE pages[i].v) \o ConcatPages(pages, i + 1)

\* extract_text_from_pdf: open() or PdfReader raising is caught and gives None
extract_text_from_pdf(path) ==
    IF FileKind(path) = "pdf" THEN PyStr(ConcatPages(Pages(path), 1)) ELSE PyNone

\* a guard that only rejects the empty string
ExtractFailedOnlyEmpty(text) == text = PyStr(<<>>)
\* process_pdf: if not text
ExtractFailed(text) == Falsy(text)

\* process_pdf: if not analysis
AnalysisFailed(analysis) == Falsy(analysis)

\* Path(pdf_path).name: the last component, trailing separators dropped
RECURSIVE PathName(_)
PathName(path) ==
    IF path = <<>> THEN <<>>
    ELSE IF path[Len(path)] = "/" THEN PathName(DropLast(path, 1))
    ELSE IF \E i \in 1..Len(path) : path[i] = "/"
         THEN LET last == CHOOSE i \in 1..Len(path) :
                              path[i] = "/" /\ \A j \in (i + 1)..Len(path) : path[j] # "/"
              IN DropFirst(path, last)
         ELSE path

TextLimit == 4000
\* text[:4000], the part of the text the prompt carries
Payload(text) == Take(text, TextLimit)

\* ------------------------------------------------------------ the record store
\* analysis.get(key, default); analysis is a dict
DictGet(d, k, default) == IF DictHas(d, k) THEN d.v[DictIndex(d, k)][2] ELSE default

\* ",".join(xs) for a sequence of str values
RECURSIVE JoinComma(_, _)
JoinComma(xs, i) ==
    IF i > Len(xs) THEN <<>>
    ELSE (IF i > 1 THEN <<",">> ELSE <<>>) \o xs[i].v \o JoinComma(xs, i + 1)

\* the elements iterating x yields: the items of a list, the characters of a
\* str, the keys of a dict
IterItems(x) ==
    IF x.t = "list" THEN x.v
    ELSE IF x.t = "str" THEN [i \in 1..Len(x.v) |-> PyStr(<<x.v[i]>>)]
    ELSE [i \in 1..Len(x.v) |-> PyStr(x.v[i][1])]

\* ",".join(x) raises TypeError unless x is iterable and yields only str
JoinRaises(x) ==
    \/ x.t \notin {"list", "str", "dict"}
    \/ \E i \in 1..Len(IterItems(x)) : IterItems(x)[i].t # "str"

\* sqlite3 binds None, int, float, str and bytes; anything else raises
Bindable(x) == x.t \in {"none", "str", "num", "bool"}

\* the value a TEXT column keeps for a bound parameter (numbers become text)
ToColumn(x) ==
    IF x.t = "num" THEN PyStr(x.v)
    ELSE IF x.t = "bool" THEN PyStr(IF x.v = <<TRUE>> THEN <<"1">> ELSE <<"0">>)
    ELSE x

\* id INTEGER PRIMARY KEY AUTOINCREMENT: one more than every id used so far
NewRowId(rows) ==
    IF rows = <<>> THEN 1
    ELSE 1 + (CHOOSE m \in {rows[i].id : i \in 1..Len(rows)} :
                  \A i \in 1..Len(rows) : rows[i].id <= m)

\* the parameter tuple of lines 112-121 and the row it makes
InsertRow(rows, analysis, filename) ==
    [id |-> NewRowId(rows),
     title |-> ToColumn(DictGet(analysis, K_title, PyStr(Unknown))),
     source |-> ToColumn(DictGet(analysis, K_source, PyStr(Unknown))),
     category |-> ToColumn(DictGet(analysis, K_category, PyStr(Unknown))),
     subtopic |-> ToColumn(DictGet(analysis, K_subtopic, PyStr(Unknown))),
     author |-> ToColumn(DictGet(analysis, K_author, PyStr(Unknown))),
     tags |-> PyStr(JoinComma(IterItems(DictGet(analysis, K_tags, PyList(<<>>))), 1)),
     summary |-> ToColumn(DictGet(analysis, K_summary, PyStr(NoSummary))),
     filename |-> PyStr(filename)]

\* building the tuple or executing the INSERT raises: analysis has no .get,
\* join raises, a parameter cannot be bound, or title is NULL (NOT NULL)
InsertRaises(analysis) ==
    \/ analysis.t # "dict"
    \/ JoinRaises(DictGet(analysis, K_tags, PyList(<<>>)))
    \/ \E i \in 1..Len(StringFields) :
           ~Bindable(DictGet(analysis, StringFields[i], PyStr(Unknown)))
    \/ DictGet(analysis, K_title, PyStr(Unknown)).t = "none"

\* a second execute of the same statement
ExecuteInsertTwice(rows, row) == Append(Append(rows, row), row)
\* cursor.execute("INSERT INTO articles ...")
ExecuteInsert(rows, row) == Append(rows, row)

\* ------------------------------------------------- what the model may answer
TagsNode(n, last, tc) ==
    ArrNode([j \in 1..n |-> StrNode(IF j = n THEN last ELSE <<"x">>)], tc)

\* an object with all seven fields: the string field f (or the last tag, when
\* f is tags) holds the probe string p, and there are n tags
RoundTripNode(p, f, n) ==
    ObjNode(SevenFields,
            [i \in 1..Len(SevenFields) |->
                IF SevenFields[i] = K_tags
                THEN TagsNode(n, IF f = K_tags THEN p ELSE <<"y">>, "none")
                ELSE StrNode(IF SevenFields[i] = f THEN p ELSE <<"A">>)],
            "none")

TitleOnly(node) == ObjNode(<<K_title>>, <<node>>, "none")
TitleAndTags(node) == ObjNode(<<K_title, K_tags>>, <<StrNode(<<"A">>), node>>, "none")

\* message.content of a response: None, or one of these texts
CompletionTexts ==
    { Fenced(Write(RoundTripNode(<<"T">>, K_title, 2), TRUE)),
      Write(TitleOnly(StrNode(<<"C">>)), TRUE),
      Write(TitleOnly(StrNode(<<>>)), TRUE),
      Write(TitleOnly(LitNode(Lit_null)), TRUE),
      Write(TitleAndTags(StrNode(<<"a", "b">>)), TRUE),
      Write(TitleAndTags(LitNode(<<"5">>)), TRUE),
      Write(TitleAndTags(LitNode(Lit_null)), TRUE),
      Write(TitleAndTags(ArrNode(<<StrNode(<<"x">>), LitNode(<<"5">>)>>, "none")), TRUE),
      Write(TitleAndTags(TagsNode(2, <<"y">>, "comma")), TRUE),
      Write(ObjNode(<<K_title, K_tags>>,
                    <<StrNode(<<"A">>), TagsNode(2, <<"y">>, "comma")>>, "comma"), TRUE),
      Write(ObjNode(<<>>, <<>>, "none"), TRUE),
      Write(ArrNode(<<>>, "none"), TRUE),
      Write(ArrNode(<<StrNode(<<"x">>)>>, "none"), TRUE),
      Lit_null,
      <<"0">>,
      <<"5">>,
      Quoted(<<>>),
      <<"n", "o", "t", SP, "j", "s", "o", "n">> }

Contents == {PyNone} \cup {PyStr(c) : c \in CompletionTexts}

\* --------------------------------------------------------------------- state
VARIABLES
    pc,           \* where the run is: idle, process_pdf, extracted, analyzed,
                  \*   db_open, inserted, done
    runs,         \* invocations started so far
    entry,        \* how this run was entered: main or process_pdf
    pdf_path,     \* the path given to this run
    text,         \* process_pdf's text
    analysis,     \* process_pdf's analysis
    filename,     \* process_pdf's filename
    log,          \* what this run printed
    calls,        \* how often this run executed each step
    request,      \* the request this run sent: payload, transport outcome, content
    dbFault,      \* the fault the store raised in this run's insertion, if any
    dbFile,       \* pdf_database.db exists
    tableExists,  \* it holds the table articles
    conn,         \* this run's connection: none, open, closed
    pending,      \* rows inserted on the connection and not committed
    articles,     \* the committed rows of articles, oldest first
    before,       \* the store as this run found it
    npc,          \* normaliser: response, stripped, unfenced_open, unfenced,
                  \*   cleaned, returned
    json_content, \* normaliser: json_content
    result,       \* normaliser: the value returned and whether json.loads raised
    doc           \* normaliser: the document the completion was written from

pipeVars ==
    <<pc, runs, entry, pdf_path, text, analysis, filename, log, calls, request,
      dbFault, dbFile, tableExists, conn, pending, articles, before>>
normVars == <<npc, json_content, result, doc>>
vars == <<pipeVars, normVars>>

NoCalls == [extract |-> 0, request |-> 0, create |-> 0, insert |-> 0]
NoRequest == [sent |-> FALSE, payload |-> <<>>, transport |-> "none", content |-> PyNone]
NoDoc == [family |-> "none", expected |-> PyNone, reference |-> <<>>,
          probe |-> <<>>, pattern |-> FALSE, commas |-> 0]
NoResult == [raised |-> FALSE, val |-> PyNone]

RunStart ==
    /\ pc = "idle"
    /\ entry = "none"
    /\ pdf_path = <<>>
    /\ text = PyNone
    /\ analysis = PyNone
    /\ filename = <<>>
    /\ log = <<>>
    /\ calls = NoCalls
    /\ request = NoRequest
    /\ dbFault = "none"
    /\ conn = "none"
    /\ pending = <<>>

PipeInit ==
    /\ RunStart
    /\ runs = 1
    /\ dbFile = FALSE
    /\ tableExists = FALSE
    /\ articles = <<>>
    /\ before = [articles |-> <<>>, dbFile |-> FALSE, tableExists |-> FALSE]

NormIdle ==
    /\ npc = "none"
    /\ json_content = <<>>
    /\ result = NoResult
    /\ doc = NoDoc

Init == PipeInit /\ NormIdle

\* ------------------------------------------------------------------ pipeline
\* main(): the path is read and checked with os.path.exists
Main(path) ==
    /\ pc = "idle"
    /\ entry' = "main"
    /\ pdf_path' = path
    /\ IF Exists(path)
       THEN pc' = "process_pdf" /\ log' = log
       ELSE pc' = "done" /\ log' = Append(log, "File does not exist.")
    /\ UNCHANGED <<runs, text, analysis, filename, calls, request, dbFault, dbFile,
                   tableExists, conn, pending, articles, before, normVars>>

\* process_pdf(path) called by another caller than main
CallProcessPdf(path) ==
    /\ pc = "idle"
    /\ entry' = "process_pdf"
    /\ pdf_path' = path
    /\ pc' = "process_pdf"
    /\ UNCHANGED <<runs, text, analysis, filename, log, calls, request, dbFault,
                   dbFile, tableExists, conn, pending, articles, before, normVars>>

\* process_pdf, lines 131-134
ExtractText ==
    /\ pc = "process_pdf"
    /\ LET t == extract_text_from_pdf(pdf_path)
           l1 == IF t = PyNone THEN Append(log, "Error extracting text from PDF")
                 ELSE log
       IN /\ text' = t
          /\ IF ExtractFailed(t)
             THEN pc' = "done" /\ log' = Append(l1, "Failed to extract text from PDF.")
             ELSE pc' = "extracted" /\ log' = l1
    /\ calls' = [calls EXCEPT !.extract = @ + 1]
    /\ UNCHANGED <<runs, entry, pdf_path, analysis, filename, request, dbFault,
                   dbFile, tableExists, conn, pending, articles, before, normVars>>

\* analyze_pdf_content(text): what it returns and whether its except branch ran,
\* for the transport outcome tr and the completion content c
AnalyzeResult(tr, c) ==
    IF text.t # "str" \/ tr = "error" \/ c.t # "str"
    THEN [raised |-> TRUE, val |-> Fallback]
    ELSE NormalizeResult(c.v)

\* process_pdf, lines 137-140
AnalyzeContent(tr, c) ==
    /\ pc = "extracted"
    /\ tr = "error" => c = PyNone
    /\ LET a == AnalyzeResult(tr, c)
           l1 == IF a.raised THEN Append(log, "Error analyzing content") ELSE log
       IN /\ analysis' = a.val
          /\ IF AnalysisFailed(a.val)
             THEN pc' = "done" /\ log' = Append(l1, "Failed to analyze PDF content.")
             ELSE pc' = "analyzed" /\ log' = l1
    /\ IF text.t = "str"
       THEN /\ calls' = [calls EXCEPT !.request = @ + 1]
            /\ request' = [sent |-> TRUE, payload |-> Payload(text.v),
                           transport |-> tr, content |-> c]
       ELSE UNCHANGED <<calls, request>>
    /\ UNCHANGED <<runs, entry, pdf_path, text, filename, dbFault, dbFile,
                   tableExists, conn, pending, articles, before, normVars>>

\* process_pdf, lines 143-146: filename, then create_database()
CreateDatabase ==
    /\ pc = "analyzed"
    /\ filename' = PathName(pdf_path)
    /\ dbFile' = TRUE
    /\ tableExists' = TRUE
    /\ conn' = "open"
    /\ calls' = [calls EXCEPT !.create = @ + 1]
    /\ pc' = "db_open"
    /\ UNCHANGED <<runs, entry, pdf_path, text, analysis, log, request, dbFault,
                   pending, articles, before, normVars>>

\* insert_into_database(cursor, conn, analysis, filename); fault is what the
\* store itself raises: nothing, an error in execute, or an error in commit
InsertIntoDatabase(fault) ==
    /\ pc = "db_open"
    /\ dbFault' = fault
    /\ calls' = [calls EXCEPT !.insert = @ + 1]
    /\ IF InsertRaises(analysis) \/ fault = "execute"
       THEN /\ log' = Append(log, "Error inserting into database")
            /\ UNCHANGED <<pending, articles>>
       ELSE LET row == InsertRow(articles, analysis, filename)
            IN IF fault = "commit"
               THEN /\ pending' = ExecuteInsert(pending, row)
                    /\ log' = Append(log, "Error inserting into database")
                    /\ UNCHANGED articles
               ELSE /\ articles' = articles \o ExecuteInsert(pending, row)
                    /\ pending' = <<>>
                    /\ log' = Append(log, "Successfully inserted")
    /\ pc' = "inserted"
    /\ UNCHANGED <<runs, entry, pdf_path, text, analysis, filename, request, dbFile,
                   tableExists, conn, before, normVars>>

\* process_pdf, line 148: conn.close() drops what was not committed
CloseConnection ==
    /\ pc = "inserted"
    /\ conn' = "closed"
    /\ pending' = <<>>
    /\ pc' = "done"
    /\ UNCHANGED <<runs, entry, pdf_path, text, analysis, filename, log, calls,
                   request, dbFault, dbFile, tableExists, articles, before, normVars>>

\* the program is started again
NextRun ==
    /\ pc = "done"
    /\ runs < MaxRuns
    /\ runs' = runs + 1
    /\ pc' = "idle"
    /\ entry' = "none"
    /\ pdf_path' = <<>>
    /\ text' = PyNone
    /\ analysis' = PyNone
    /\ filename' = <<>>
    /\ log' = <<>>
    /\ calls' = NoCalls
    /\ request' = NoRequest
    /\ dbFault' = "none"
    /\ conn' = "none"
    /\ pending' = <<>>
    /\ before' = [articles |-> articles, dbFile |-> dbFile, tableExists |-> tableExists]
    /\ UNCHANGED <<dbFile, tableExists, articles, normVars>>

Next ==
    \/ \E path \in Paths : Main(path)
    \/ \E path \in Paths : CallProcessPdf(path)
    \/ ExtractText
    \/ \E tr \in {"ok", "error"}, c \in Contents : AnalyzeContent(tr, c)
    \/ CreateDatabase
    \/ \E fault \in {"none", "execute", "commit"} : InsertIntoDatabase(fault)
    \/ CloseConnection
    \/ NextRun

Spec == Init /\ [][Next]_vars

\* ------------------------------------------------- the normaliser, step by step
ProbeChars == {"a", ",", "]", "}", SP}
ProbeStrings == UNION {[1..k -> ProbeChars] : k \in 0..MaxStrLen}

\* containers nested up to d deep, each closing with or without a trailing comma
RECURSIVE Chains(_)
Chains(d) ==
    IF d = 0 THEN {StrNode(<<"y">>)}
    ELSE LET C == Chains(d - 1)
         IN C \cup {ArrNode(<<LitNode(<<"5">>), c>>, tc) : c \in C, tc \in TcStyles}
              \cup {ObjNode(<<<<"k">>>>, <<c>>, tc) : c \in C, tc \in TcStyles}
              \cup {ArrNode(<<>>, tc) : tc \in TcStyles}
              \cup {ObjNode(<<>>, <<>>, tc) : tc \in TcStyles}

\* an object with a title, n tags and a nested value, with trailing commas
RepairNode(n, tcTags, chain, tcTop) ==
    ObjNode(<<K_title, K_tags, <<"e">>>>,
            <<StrNode(<<"A">>), TagsNode(n, <<"y">>, tcTags), chain>>, tcTop)

\* how many trailing commas the text of a node has
RECURSIVE CommaCount(_)
RECURSIVE CommaCountItems(_, _)
CommaCountItems(n, i) ==
    IF i > Len(n.items) THEN 0
    ELSE CommaCount(n.items[i]) + CommaCountItems(n, i + 1)
CommaCount(n) == (IF n.tc = "none" THEN 0 ELSE 1) + CommaCountItems(n, 1)

DocOf(family, node, probe) ==
    [family |-> family, expected |-> ValueOf(node), reference |-> Write(node, FALSE),
     probe |-> probe, pattern |-> HasPattern(probe), commas |-> CommaCount(node)]

\* the completion is a fenced well-formed object with all seven fields, or an
\* object that is well formed but for its trailing commas
NormInit ==
    /\ PipeInit
    /\ npc = "response"
    /\ result = NoResult
    /\ \/ \E p \in ProbeStrings, i \in 1..Len(SevenFields), n \in 0..MaxTags :
             /\ SevenFields[i] = K_tags => n >= 1
             /\ LET node == RoundTripNode(p, SevenFields[i], n)
                IN /\ json_content = Fenced(Write(node, TRUE))
                   /\ doc = DocOf("roundtrip", node, p)
       \/ \E n \in 0..MaxTags, tcTags \in TcStyles, chain \in Chains(MaxDepth),
             tcTop \in TcStyles :
             LET node == RepairNode(n, tcTags, chain, tcTop)
             IN /\ json_content = Write(node, TRUE)
                /\ doc = DocOf("repair", node, <<>>)

\* json_content = json_content.strip()
StripContent ==
    /\ npc = "response"
    /\ json_content' = Strip(json_content)
    /\ npc' = "stripped"
    /\ UNCHANGED <<result, doc, pipeVars>>

\* lines 64-65
RemoveFenceOpen ==
    /\ npc = "stripped"
    /\ json_content' = StripFenceOpen(json_content)
    /\ npc' = "unfenced_open"
    /\ UNCHANGED <<result, doc, pipeVars>>

\* lines 66-67
RemoveFenceClose ==
    /\ npc = "unfenced_open"
    /\ json_content' = StripFenceClose(json_content)
    /\ npc' = "unfenced"
    /\ UNCHANGED <<result, doc, pipeVars>>

\* json_content = clean_json_string(json_content)
CleanContent ==
    /\ npc = "unfenced"
    /\ json_content' = clean_json_string(json_content)
    /\ npc' = "cleaned"
    /\ UNCHANGED <<result, doc, pipeVars>>

\* return json.loads(json_content), or the except branch
LoadContent ==
    /\ npc = "cleaned"
    /\ LET r == json_loads(json_content)
       IN result' = IF r.ok THEN [raised |-> FALSE, val |-> r.val]
                    ELSE [raised |-> TRUE, val |-> Fallback]
    /\ npc' = "returned"
    /\ UNCHANGED <<json_content, doc, pipeVars>>

NormNext ==
    \/ StripContent
    \/ RemoveFenceOpen
    \/ RemoveFenceClose
    \/ CleanContent
    \/ LoadContent

SpecNorm == NormInit /\ [][NormNext]_vars

\* -------------------------------------------------------------- properties
Printed(m) == \E i \in 1..Len(log) : log[i] = m

IsPrefix(a, b) == Len(a) <= Len(b) /\ SubSeq(b, 1, Len(a)) = a

\* a dict with all seven fields, none of them None
CompleteRecord(a) ==
    /\ a.t = "dict"
    /\ \A i \in 1..Len(SevenFields) :
           DictHas(a, SevenFields[i]) /\ DictGet(a, SevenFields[i], PyNone) # PyNone

\* str(x) of a tag
TagText(x) == IF x.t = "none" THEN PyStr(<<"N", "o", "n", "e">>) ELSE ToColumn(x)

\* C1: once extraction has returned the empty string, the run is at Extracted
\* or has sent the analysis request with the empty payload; it has not reported
\* an extraction failure.
C1_EmptyTextIsAnalyzed ==
    (calls.extract = 1 /\ text = PyStr(<<>>)) =>
        /\ pc = "extracted" \/ (request.sent /\ request.payload = <<>>)
        /\ ~Printed("Failed to extract text from PDF.")

\* C2: when the request fails at the transport level the run is over at once:
\* create_database and insert_into_database are not executed and the table
\* keeps the rows it had.
C2_TransportFailureAborts ==
    request.transport = "error" =>
        /\ pc = "done"
        /\ calls.create = 0
        /\ calls.insert = 0
        /\ articles = before.articles

\* C3: for every completion string, analyze_pdf_content returns a record with
\* all seven fields present and non-null.
C3_NormalizerTotal ==
    (request.sent /\ request.transport = "ok" /\ request.content.t = "str") =>
        CompleteRecord(analysis)

\* C4: when the request succeeded and the store raised nothing of its own, a
\* finished run has inserted its row, whatever the completion was.
C4_ContentNeverStopsRun ==
    (pc = "done" /\ request.transport = "ok" /\ dbFault = "none") =>
        /\ ~Printed("Failed to analyze PDF content.")
        /\ Printed("Successfully inserted")
        /\ Len(articles) = Len(before.articles) + 1

\* C5: a run on a path that does not exist, entered through main or through
\* process_pdf, never sends a request, never opens or creates the store, leaves
\* the rows of articles as they were, and ends with a reported failure.
C5_MissingPathNoEffects ==
    (entry # "none" /\ ~Exists(pdf_path)) =>
        /\ pc \in {"process_pdf", "done"}
        /\ ~request.sent
        /\ calls.request = 0 /\ calls.create = 0 /\ calls.insert = 0
        /\ conn = "none"
        /\ pending = <<>>
        /\ dbFile = before.dbFile
        /\ tableExists = before.tableExists
        /\ articles = before.articles
        /\ pc = "process_pdf" => entry = "process_pdf" /\ calls.extract = 0
        /\ pc = "done" =>
              IF entry = "main" THEN Printed("File does not exist.")
              ELSE Printed("Failed to extract text from PDF.")

C5_Witness ==
    /\ pc = "done"
    /\ entry = "process_pdf"
    /\ pdf_path = P_missing
    /\ calls.extract = 1
    /\ Len(articles) >= 1

\* C6, as stated: every fenced well-formed object with all seven fields comes
\* back from the normaliser with each field equal to the value written, also
\* when a string holds ',' whitespace* ']' or '}'.
C6_RoundTripAll ==
    (npc = "returned" /\ doc.family = "roundtrip") =>
        ~result.raised /\ result.val = doc.expected

\* C6, amended: the same, for objects none of whose quoted strings holds ','
\* followed by optional whitespace and ']' or '}'.
C6_RoundTripNoPattern ==
    (npc = "returned" /\ doc.family = "roundtrip" /\ ~doc.pattern) =>
        ~result.raised /\ result.val = doc.expected

C6_Witness ==
    /\ npc = "returned"
    /\ doc.family = "roundtrip"
    /\ doc.probe = <<"]", ",">>
    /\ ~result.raised
    /\ result.val = doc.expected

\* C7: for an object that is valid JSON but for trailing commas before ']' and
\* '}', clean_json_string returns the same text without those commas, json.loads
\* then succeeds with the values of that text, and the fallback is not produced.
C7_TrailingCommaRepair ==
    doc.family = "repair" =>
        /\ npc \in {"cleaned", "returned"} => json_content = doc.reference
        /\ npc = "returned" =>
              /\ ~result.raised
              /\ result.val = doc.expected
              /\ result.val # Fallback

C7_Witness ==
    /\ npc = "returned"
    /\ doc.family = "repair"
    /\ doc.commas >= 4
    /\ json_content = doc.reference
    /\ result.val = doc.expected

\* C8: every row of articles has a non-empty title and a non-empty filename.
C8_TitleAndFilenameNonEmpty ==
    \A i \in 1..Len(articles) :
        /\ articles[i].title \notin {PyNone, PyStr(<<>>)}
        /\ articles[i].filename \notin {PyNone, PyStr(<<>>)}

C9_State ==
    /\ \A i, j \in 1..Len(articles) : i # j => articles[i].id # articles[j].id
    /\ calls.extract <= 1 /\ calls.request <= 1
    /\ calls.create <= 1 /\ calls.insert <= 1
    /\ IsPrefix(before.articles, articles)
    /\ pc = "done" =>
          /\ pending = <<>>
          /\ Len(articles) = Len(before.articles)
                               + (IF Printed("Successfully inserted") THEN 1 ELSE 0)

C9_Step == IsPrefix(articles, articles') /\ Len(articles') <= Len(articles) + 1

\* C9: articles is append-only: no step changes or removes a row or adds more
\* than one; a finished run has added exactly one row if it reported success
\* and none otherwise, leaving nothing uncommitted; ids are pairwise different;
\* no step of a run is executed more than once.
C9_AppendOnlyOnePerRun == []C9_State /\ [][C9_Step]_vars

C9_Witness ==
    /\ pc = "done"
    /\ runs = 2
    /\ dbFault = "commit"
    /\ calls.insert = 1
    /\ Len(before.articles) = 1
    /\ Len(articles) = 1

\* C10: a finished run whose analysis has a tags field, with no fault of the
\* store's own, has inserted a row whose tags column is the elements joined by
\* ',' (each as a string) when tags is a sequence, and empty when it is not.
C10_TagsColumn ==
    (pc = "done" /\ analysis.t = "dict" /\ DictHas(analysis, K_tags)
       /\ dbFault = "none") =>
        /\ Len(articles) = Len(before.articles) + 1
        /\ LET tags == DictGet(analysis, K_tags, PyNone)
           IN articles[Len(articles)].tags =
                 IF tags.t = "list"
                 THEN PyStr(JoinComma([i \in 1..Len(tags.v) |-> TagText(tags.v[i])], 1))
                 ELSE PyStr(<<>>)

====
